---- MODULE Spec2Model ----
(***************************************************************************)
(* A model of optimize_homebox_images.py: main() drives every discovered   *)
(* image through create_backup -> convert_to_webp -> shutil.move ->        *)
(* update_database_mime_type, one file at a time.  The state is the data   *)
(* tree, the backup directory, the attachments table, the connection and   *)
(* main's local variables; every library call that can raise has a         *)
(* failing outcome, bounded by MaxFaults failures per behaviour.           *)
(*                                                                         *)
(* shutil.move is modelled as os.rename: it either replaces the            *)
(* destination in one step or raises and changes nothing.                  *)
(***************************************************************************)
EXTENDS Naturals, Sequences, FiniteSets, TLC

VARIABLES
    args,             \* argparse result: dry_run, skip_database, data_path
    dbUp,             \* environment: psycopg2.connect succeeds
    fs,               \* files under the data root: path -> content
    bak,              \* files of the backup directory: name -> content
    bakDir,           \* the backup directory exists
    db,               \* attachments table: path column -> mime_type
    conn,             \* "none" | "open" | "dead" | "closed"
    txn,              \* keys updated by the open transaction, not yet committed
    pc,               \* main's position
    image_files,      \* result of find_image_files
    i,                \* index of the loop over image_files
    converted_count,
    failed_count,
    run,              \* number of the current run of the script
    faults,           \* failures injected so far
    preFs,            \* history: fs when the current run started
    preDb,            \* history: db when the current run started
    preBakDir,        \* history: bakDir when the current run started
    orig,             \* history: fs before the first run
    ops,              \* history: steps performed on each path in this run
    conv,             \* history: increments of converted_count per path
    everConverted,    \* history: paths counted as converted by some run
    fail              \* history: increments of failed_count per path

vars == <<args, dbUp, fs, bak, bakDir, db, conn, txn, pc, image_files, i,
          converted_count, failed_count, run, faults, preFs, preDb,
          preBakDir, orig, ops, conv, everConverted, fail>>

(***************************************************************************)
(* Bounds                                                                  *)
(***************************************************************************)
MaxRuns == 2
MaxFaults == 2

(***************************************************************************)
(* Program constants                                                       *)
(***************************************************************************)
HOMEBOX_DATA_PATH == "/var/lib/docker/volumes/homebox-postgres-data/_data"
OtherRoot == "/srv/homebox"
NestedRoot == HOMEBOX_DATA_PATH \o "/sub"
SUPPORTED_FORMATS == {".jpg", ".jpeg", ".png", ".gif", ".bmp", ".tiff", ".tif"}
TARGET_MIME == "image/webp"

(***************************************************************************)
(* Paths are records dir/stem/suffix relative to the data root.            *)
(***************************************************************************)
P(d, s, x) == [dir |-> d, stem |-> s, suffix |-> x]

Tree == << P("a", "img", ".JPG"),
           P("b", "img", ".JPG"),
           P("a", "pic", ""),
           P("a", "old", ".webp"),
           P("b", "notes", ".txt") >>

TreePaths == {Tree[k] : k \in 1..Len(Tree)}

Name(p) == p.stem \o p.suffix

Lower(s) ==
    CASE s = ".JPG" -> ".jpg"
      [] s = ".PNG" -> ".png"
      [] s = ".WEBP" -> ".webp"
      [] OTHER -> s

(***************************************************************************)
(* File contents: whose pixels, which encoding, how many times re-encoded, *)
(* and whether the write that produced the file completed.                 *)
(***************************************************************************)
Bytes(p, e, g, w) == [of |-> p, enc |-> e, gen |-> g, whole |-> w]

\* Image.open reads the header only; decoding needs the whole file.
Identifies(c) == c.enc \in {"jpeg", "webp"}

Decodable(c) == c.whole /\ Identifies(c)

Encode(c) == Bytes(c.of, "webp", c.gen + 1, TRUE)

Truncated(c) == Bytes(c.of, c.enc, c.gen, FALSE)

Write(f, p, c) == [q \in (DOMAIN f) \cup {p} |-> IF q = p THEN c ELSE f[q]]

Remove(f, p) == [q \in (DOMAIN f) \ {p} |-> f[q]]

\* shutil.move(src, dst) inside the data tree
Move(f, src, dst) == Remove(Write(f, dst, f[src]), src)

EmptyDir == [q \in {} |-> q]

(***************************************************************************)
(* The functions of the script                                             *)
(***************************************************************************)
\* line 201
DataPath(a) == IF a.data_path # "" THEN a.data_path ELSE HOMEBOX_DATA_PATH

\* create_backup: backup_dir / Path(source_path).name
BackupPath(p) == Name(p)

\* mutation: the codec writes over the image itself
TempPathInPlace(p) == p

\* line 254: img_path.with_suffix('.webp.tmp')
TempPath(p) == P(p.dir, p.stem \o ".webp", ".tmp")

\* rglob('*') visits every file of the tree, temp files included
Walk == Tree \o [k \in 1..Len(Tree) |-> TempPath(Tree[k])]

\* mutation: the suffix is compared without lower-casing it
IsImageFileCaseSensitive(f, p) ==
    /\ p \in DOMAIN f
    /\ \/ p.suffix \in SUPPORTED_FORMATS
       \/ (p.suffix = "" /\ Identifies(f[p]))

IsImageFile(f, p) ==
    /\ p \in DOMAIN f
    /\ \/ Lower(p.suffix) \in SUPPORTED_FORMATS
       \/ (p.suffix = "" /\ Identifies(f[p]))

find_image_files(f) ==
    LET Test(p) == IsImageFile(f, p) IN SelectSeq(Walk, Test)

\* line 245
AlreadyWebP(p) == Lower(p.suffix) = ".webp"

\* Path(root).relative_to(Path(HOMEBOX_DATA_PATH)): what is left of root
\* below HOMEBOX_DATA_PATH, or ValueError when root is not under it
SubdirOf(root) ==
    CASE root = HOMEBOX_DATA_PATH -> ""
      [] root = NestedRoot -> "sub/"
      [] OTHER -> "ValueError"

\* line 120: file_path.relative_to(Path(HOMEBOX_DATA_PATH)) raises ValueError
\* when the file is not under HOMEBOX_DATA_PATH
RelativeToRaises(a) == SubdirOf(DataPath(a)) = "ValueError"

\* "data/" followed by the path relative to the root that was scanned
DbPath(p) == "data/" \o p.dir \o "/" \o Name(p)

\* line 120: db_path, relative to the global HOMEBOX_DATA_PATH
db_path(a, p) == "data/" \o SubdirOf(DataPath(a)) \o p.dir \o "/" \o Name(p)

\* UPDATE attachments SET mime_type = %s WHERE path = %s, once committed
Committed(d, keys) ==
    [k \in DOMAIN d |-> IF k \in keys THEN TARGET_MIME ELSE d[k]]

\* mutation: a missing connection no longer ends the run
NeverAborts(a, c) == FALSE

\* lines 231-233
AbortsWithoutConnection(a, c) == ~a.skip_database /\ c = "none"

\* line 263: a connection object is truthy whether or not it still works
UpdateRequested(a, c) == c \in {"open", "dead"} /\ ~a.skip_database

(***************************************************************************)
(* Initial state: a tree that was never converted, an empty backup         *)
(* location, a table with rows for some of the files.                      *)
(***************************************************************************)
InitialTrees ==
    { [p \in TreePaths |->
          IF p.suffix = "" THEN Bytes(p, e, 0, TRUE)
          ELSE IF p.suffix = ".webp" THEN Bytes(p, "webp", 0, TRUE)
          ELSE IF p.suffix = ".txt" THEN Bytes(p, "text", 0, TRUE)
          ELSE Bytes(p, "jpeg", 0, TRUE)] : e \in {"jpeg", "webp", "text"} }

InitialTable ==
    [k \in {DbPath(Tree[1]), DbPath(Tree[3]), DbPath(Tree[4])} |->
        IF k = DbPath(Tree[4]) THEN TARGET_MIME ELSE "image/jpeg"]

NoOps == [p \in TreePaths |-> {}]
Zero == [p \in TreePaths |-> 0]

Init ==
    /\ args \in [dry_run : BOOLEAN, skip_database : BOOLEAN,
                 data_path : {"", OtherRoot, NestedRoot}]
    /\ dbUp \in BOOLEAN
    /\ fs \in InitialTrees
    /\ bak = EmptyDir
    /\ bakDir = FALSE
    /\ db = InitialTable
    /\ conn = "none"
    /\ txn = {}
    /\ pc = "start"
    /\ image_files = <<>>
    /\ i = 1
    /\ converted_count = 0
    /\ failed_count = 0
    /\ run = 1
    /\ faults = 0
    /\ preFs = fs
    /\ preDb = db
    /\ preBakDir = bakDir
    /\ orig = fs
    /\ ops = NoOps
    /\ conv = Zero
    /\ everConverted = {}
    /\ fail = Zero

img_path == image_files[i]

Did(p, what) == ops' = [ops EXCEPT ![p] = @ \cup {what}]

Fault == faults < MaxFaults /\ faults' = faults + 1

\* lines 281-283: the handler counts the file as failed; the loop goes on
Except(p, n) ==
    /\ failed_count' = failed_count + n
    /\ fail' = [fail EXCEPT ![p] = @ + n]
    /\ i' = i + 1
    /\ pc' = "loop"

(***************************************************************************)
(* main()                                                                  *)
(***************************************************************************)
\* lines 204-205: backup_dir.mkdir(exist_ok=True)
MakeBackupDir ==
    /\ pc = "start"
    /\ bakDir' = TRUE
    /\ pc' = "scan"
    /\ UNCHANGED <<args, dbUp, fs, bak, db, conn, txn, image_files, i,
                   converted_count, failed_count, run, faults, preFs, preDb,
                   preBakDir, orig, ops, conv, fail,
                   everConverted>>

\* lines 207-221: find_image_files, return when nothing was found
Scan ==
    /\ pc = "scan"
    /\ image_files' = find_image_files(fs)
    /\ pc' = IF image_files' = <<>> THEN "done" ELSE "analyzed"
    /\ UNCHANGED <<args, dbUp, fs, bak, bakDir, db, conn, txn, i,
                   converted_count, failed_count, run, faults, preFs, preDb,
                   preBakDir, orig, ops, conv, fail,
                   everConverted>>

\* lines 223-225
DryRunCheck ==
    /\ pc = "analyzed"
    /\ pc' = IF args.dry_run THEN "done" ELSE "connect"
    /\ UNCHANGED <<args, dbUp, fs, bak, bakDir, db, conn, txn, image_files, i,
                   converted_count, failed_count, run, faults, preFs, preDb,
                   preBakDir, orig, ops, conv, fail,
                   everConverted>>

\* mutation: the connection is opened whatever --skip-database says
ConnectIgnoresSkip ==
    /\ pc = "connect"
    /\ conn' = IF dbUp THEN "open" ELSE "none"
    /\ pc' = IF AbortsWithoutConnection(args, conn') THEN "done" ELSE "loop"
    /\ UNCHANGED <<args, dbUp, fs, bak, bakDir, db, txn, image_files, i,
                   converted_count, failed_count, run, faults, preFs, preDb,
                   preBakDir, orig, ops, conv, fail,
                   everConverted>>

\* lines 227-233: get_database_connection returns None when connect raises
Connect ==
    /\ pc = "connect"
    /\ conn' = IF ~args.skip_database /\ dbUp THEN "open" ELSE "none"
    /\ pc' = IF AbortsWithoutConnection(args, conn') THEN "done" ELSE "loop"
    /\ UNCHANGED <<args, dbUp, fs, bak, bakDir, db, txn, image_files, i,
                   converted_count, failed_count, run, faults, preFs, preDb,
                   preBakDir, orig, ops, conv, fail,
                   everConverted>>

\* lines 240-247: next file, or leave the loop; a .webp suffix is skipped
LoopHead ==
    /\ pc = "loop"
    /\ IF i > Len(image_files)
       THEN pc' = "close" /\ UNCHANGED <<i, ops>>
       ELSE IF AlreadyWebP(img_path)
            THEN pc' = "loop" /\ i' = i + 1 /\ Did(img_path, "skip")
            ELSE pc' = "backup" /\ UNCHANGED <<i, ops>>
    /\ UNCHANGED <<args, dbUp, fs, bak, bakDir, db, conn, txn, image_files,
                   converted_count, failed_count, run, faults, preFs, preDb,
                   preBakDir, orig, conv, fail,
                   everConverted>>

\* line 250: create_backup copies the file into the backup directory
BackupOk ==
    /\ pc = "backup"
    /\ bak' = Write(bak, BackupPath(img_path), fs[img_path])
    /\ Did(img_path, "backup")
    /\ pc' = "convert"
    /\ UNCHANGED <<args, dbUp, fs, bakDir, db, conn, txn, image_files, i,
                   converted_count, failed_count, run, faults, preFs, preDb,
                   preBakDir, orig, conv, fail,
                   everConverted>>

\* mutation: the failed backup is swallowed and the file is converted anyway
BackupRaisesSwallowed ==
    /\ pc = "backup"
    /\ Fault
    /\ Did(img_path, "backup_failed")
    /\ pc' = "convert"
    /\ UNCHANGED <<args, dbUp, fs, bak, bakDir, db, conn, txn, image_files, i,
                   converted_count, failed_count, run, preFs, preDb,
                   preBakDir, orig, conv, fail,
                   everConverted>>

\* line 250 raising: nothing copied, or the copy cut short; lines 281-283
BackupRaises ==
    /\ pc = "backup"
    /\ Fault
    /\ \/ bak' = bak
       \/ bak' = Write(bak, BackupPath(img_path), Truncated(fs[img_path]))
    /\ Did(img_path, "backup_failed")
    /\ Except(img_path, 1)
    /\ UNCHANGED <<args, dbUp, fs, bakDir, db, conn, txn, image_files,
                   converted_count, run, preFs, preDb, preBakDir, orig, conv,
                   everConverted>>

\* mutation: the table is updated before the temp file is moved into place
ConvertOkUpdatesFirst ==
    /\ pc = "convert"
    /\ Decodable(fs[img_path])
    /\ fs' = Write(fs, TempPath(img_path), Encode(fs[img_path]))
    /\ Did(img_path, "convert")
    /\ pc' = IF UpdateRequested(args, conn) THEN "update" ELSE "swap"
    /\ UNCHANGED <<args, dbUp, bak, bakDir, db, conn, txn, image_files, i,
                   converted_count, failed_count, run, faults, preFs, preDb,
                   preBakDir, orig, conv, fail,
                   everConverted>>

\* lines 254-256, 76-100: convert_to_webp writes the temp file, returns True
ConvertOk ==
    /\ pc = "convert"
    /\ Decodable(fs[img_path])
    /\ fs' = Write(fs, TempPath(img_path), Encode(fs[img_path]))
    /\ Did(img_path, "convert")
    /\ pc' = "swap"
    /\ UNCHANGED <<args, dbUp, bak, bakDir, db, conn, txn, image_files, i,
                   converted_count, failed_count, run, faults, preFs, preDb,
                   preBakDir, orig, conv, fail,
                   everConverted>>

\* mutation: the except branch of convert_to_webp returns True
ConvertFailsReturnsTrue ==
    /\ pc = "convert"
    /\ Fault
    /\ fs' = Write(fs, TempPath(img_path), Truncated(Encode(fs[img_path])))
    /\ Did(img_path, "convert_failed")
    /\ pc' = "swap"
    /\ UNCHANGED <<args, dbUp, bak, bakDir, db, conn, txn, image_files, i,
                   converted_count, failed_count, run, preFs, preDb,
                   preBakDir, orig, conv, fail,
                   everConverted>>

\* lines 101-103: any exception is caught, the temp file may be cut short
ConvertFails ==
    /\ pc = "convert"
    /\ Fault
    /\ \/ fs' = fs
       \/ fs' = Write(fs, TempPath(img_path), Truncated(Encode(fs[img_path])))
    /\ Did(img_path, "convert_failed")
    /\ pc' = "restore"
    /\ UNCHANGED <<args, dbUp, bak, bakDir, db, conn, txn, image_files, i,
                   converted_count, failed_count, run, preFs, preDb,
                   preBakDir, orig, conv, fail,
                   everConverted>>

\* lines 257-263: shutil.move(temp_webp, img_path)
SwapOk ==
    /\ pc = "swap"
    /\ fs' = Move(fs, TempPath(img_path), img_path)
    /\ Did(img_path, "swap")
    /\ pc' = IF UpdateRequested(args, conn) THEN "update" ELSE "count"
    /\ UNCHANGED <<args, dbUp, bak, bakDir, db, conn, txn, image_files, i,
                   converted_count, failed_count, run, faults, preFs, preDb,
                   preBakDir, orig, conv, fail,
                   everConverted>>

\* mutation: the exception of the move is not caught and ends the run
SwapRaisesUncaught ==
    /\ pc = "swap"
    /\ Fault
    /\ Did(img_path, "swap_failed")
    /\ pc' = "done"
    /\ UNCHANGED <<args, dbUp, fs, bak, bakDir, db, conn, txn, image_files, i,
                   converted_count, failed_count, run, preFs, preDb,
                   preBakDir, orig, conv, fail,
                   everConverted>>

\* line 260 raising; lines 281-283
SwapRaises ==
    /\ pc = "swap"
    /\ Fault
    /\ Did(img_path, "swap_failed")
    /\ Except(img_path, 1)
    /\ UNCHANGED <<args, dbUp, fs, bak, bakDir, db, conn, txn, image_files,
                   converted_count, run, preFs, preDb, preBakDir, orig, conv,
                   everConverted>>

(***************************************************************************)
(* update_database_mime_type, called at line 264                           *)
(***************************************************************************)
\* mutation: the connection runs in autocommit mode
ExecuteAutocommit ==
    /\ pc = "update"
    /\ conn = "open"
    /\ ~RelativeToRaises(args)
    /\ db' = Committed(db, {db_path(args, img_path)})
    /\ txn' = txn \cup {db_path(args, img_path)}
    /\ Did(img_path, "update")
    /\ pc' = "commit"
    /\ UNCHANGED <<args, dbUp, fs, bak, bakDir, conn, image_files, i,
                   converted_count, failed_count, run, faults, preFs, preDb,
                   preBakDir, orig, conv, fail,
                   everConverted>>

\* lines 117-126: the UPDATE statement joins the connection's transaction
Execute ==
    /\ pc = "update"
    /\ conn = "open"
    /\ ~RelativeToRaises(args)
    /\ txn' = txn \cup {db_path(args, img_path)}
    /\ Did(img_path, "update")
    /\ pc' = "commit"
    /\ UNCHANGED <<args, dbUp, fs, bak, bakDir, db, conn, image_files, i,
                   converted_count, failed_count, run, faults, preFs, preDb,
                   preBakDir, orig, conv, fail,
                   everConverted>>

\* line 120 raising ValueError before any statement; lines 133-136
KeyRaises ==
    /\ pc = "update"
    /\ conn = "open"
    /\ RelativeToRaises(args)
    /\ txn' = {}
    /\ Did(img_path, "update_failed")
    /\ pc' = "count"
    /\ UNCHANGED <<args, dbUp, fs, bak, bakDir, db, conn, image_files, i,
                   converted_count, failed_count, run, faults, preFs, preDb,
                   preBakDir, orig, conv, fail,
                   everConverted>>

\* line 123 raising on a working connection; conn.rollback(), return False
ExecuteRaises ==
    /\ pc = "update"
    /\ conn = "open"
    /\ ~RelativeToRaises(args)
    /\ Fault
    /\ txn' = {}
    /\ Did(img_path, "update_failed")
    /\ pc' = "count"
    /\ UNCHANGED <<args, dbUp, fs, bak, bakDir, db, conn, image_files, i,
                   converted_count, failed_count, run, preFs, preDb,
                   preBakDir, orig, conv, fail,
                   everConverted>>

\* the connection is lost: the statement raises and conn.rollback() at line
\* 135 raises too, out of the function and into the handler of lines 281-283
ConnectionLost ==
    /\ pc \in {"update", "commit"}
    /\ \/ conn = "open" /\ Fault
       \/ conn = "dead" /\ UNCHANGED faults
    /\ conn' = "dead"
    /\ txn' = {}
    /\ Did(img_path, "update_failed")
    /\ Except(img_path, 1)
    /\ UNCHANGED <<args, dbUp, fs, bak, bakDir, db, image_files,
                   converted_count, run, preFs, preDb, preBakDir, orig, conv,
                   everConverted>>

\* lines 128-132: conn.commit() makes the update visible in the table
Commit ==
    /\ pc = "commit"
    /\ conn = "open"
    /\ db' = Committed(db, txn)
    /\ txn' = {}
    /\ pc' = "count"
    /\ UNCHANGED <<args, dbUp, fs, bak, bakDir, conn, image_files, i,
                   converted_count, failed_count, run, faults, preFs, preDb,
                   preBakDir, orig, ops, conv, fail,
                   everConverted>>

\* mutation: the except branch returns False without conn.rollback()
CommitRaisesNoRollback ==
    /\ pc = "commit"
    /\ conn = "open"
    /\ Fault
    /\ Did(img_path, "update_failed")
    /\ pc' = "count"
    /\ UNCHANGED <<args, dbUp, fs, bak, bakDir, db, conn, txn, image_files, i,
                   converted_count, failed_count, run, preFs, preDb,
                   preBakDir, orig, conv, fail,
                   everConverted>>

\* line 129 raising on a working connection; conn.rollback(), return False
CommitRaises ==
    /\ pc = "commit"
    /\ conn = "open"
    /\ Fault
    /\ txn' = {}
    /\ Did(img_path, "update_failed")
    /\ pc' = "count"
    /\ UNCHANGED <<args, dbUp, fs, bak, bakDir, db, conn, image_files, i,
                   converted_count, failed_count, run, preFs, preDb,
                   preBakDir, orig, conv, fail,
                   everConverted>>

\* lines 269-273
Count ==
    /\ pc = "count"
    /\ converted_count' = converted_count + 1
    /\ conv' = [conv EXCEPT ![img_path] = @ + 1]
    /\ everConverted' = everConverted \cup {img_path}
    /\ i' = i + 1
    /\ pc' = "loop"
    /\ UNCHANGED <<args, dbUp, fs, bak, bakDir, db, conn, txn, image_files,
                   failed_count, run, faults, preFs, preDb, preBakDir, orig,
                   ops, fail>>

\* mutation: the restore moves the temp file, not the backup
RestoreFromTemp ==
    /\ pc = "restore"
    /\ fs' = IF TempPath(img_path) \in DOMAIN fs
             THEN Move(fs, TempPath(img_path), img_path)
             ELSE Write(fs, img_path, bak[BackupPath(img_path)])
    /\ bak' = Remove(bak, BackupPath(img_path))
    /\ Did(img_path, "restore")
    /\ Except(img_path, 1)
    /\ UNCHANGED <<args, dbUp, bakDir, db, conn, txn, image_files,
                   converted_count, run, faults, preFs, preDb, preBakDir,
                   orig, conv,
                   everConverted>>

\* lines 275-279: failed_count += 1, shutil.move(backup_path, img_path)
RestoreOk ==
    /\ pc = "restore"
    /\ fs' = Write(fs, img_path, bak[BackupPath(img_path)])
    /\ bak' = Remove(bak, BackupPath(img_path))
    /\ Did(img_path, "restore")
    /\ Except(img_path, 1)
    /\ UNCHANGED <<args, dbUp, bakDir, db, conn, txn, image_files,
                   converted_count, run, faults, preFs, preDb, preBakDir,
                   orig, conv,
                   everConverted>>

\* line 278 raising after line 276 counted the file; lines 281-283 count again
RestoreRaises ==
    /\ pc = "restore"
    /\ Fault
    /\ Did(img_path, "restore_failed")
    /\ Except(img_path, 2)
    /\ UNCHANGED <<args, dbUp, fs, bak, bakDir, db, conn, txn, image_files,
                   converted_count, run, preFs, preDb, preBakDir, orig, conv,
                   everConverted>>

\* lines 285-296: close the connection, print the summary
Close ==
    /\ pc = "close"
    /\ conn' = IF conn \in {"open", "dead"} THEN "closed" ELSE conn
    /\ pc' = "done"
    /\ UNCHANGED <<args, dbUp, fs, bak, bakDir, db, txn, image_files, i,
                   converted_count, failed_count, run, faults, preFs, preDb,
                   preBakDir, orig, ops, conv, fail,
                   everConverted>>

\* the script is started again on the same tree, backup directory and table
NextRun ==
    /\ pc = "done"
    /\ run < MaxRuns
    /\ run' = run + 1
    /\ pc' = "start"
    /\ conn' = "none"
    /\ txn' = {}
    /\ image_files' = <<>>
    /\ i' = 1
    /\ converted_count' = 0
    /\ failed_count' = 0
    /\ preFs' = fs
    /\ preDb' = db
    /\ preBakDir' = bakDir
    /\ ops' = NoOps
    /\ conv' = Zero
    /\ fail' = Zero
    /\ UNCHANGED <<args, dbUp, fs, bak, bakDir, db, faults, orig,
                   everConverted>>

Next ==
    \/ MakeBackupDir \/ Scan \/ DryRunCheck \/ Connect \/ LoopHead
    \/ BackupOk \/ BackupRaises \/ ConvertOk \/ ConvertFails
    \/ SwapOk \/ SwapRaises
    \/ Execute \/ KeyRaises \/ ExecuteRaises \/ ConnectionLost
    \/ Commit \/ CommitRaises \/ Count
    \/ RestoreOk \/ RestoreRaises \/ Close \/ NextRun

Spec == Init /\ [][Next]_vars

\* the interpreter keeps executing the script: a run that can take a step
\* takes one
FairSpec == Spec /\ WF_vars(Next)

TypeOK ==
    /\ pc \in {"start", "scan", "analyzed", "connect", "loop", "backup",
               "convert", "swap", "update", "commit", "count", "restore",
               "close", "done"}
    /\ conn \in {"none", "open", "dead", "closed"}
    /\ i \in 1..(Len(image_files) + 1)
    /\ faults \in 0..MaxFaults
    /\ run \in 1..MaxRuns

(***************************************************************************)
(* Properties                                                              *)
(***************************************************************************)
\* the loop has finished with p in this run
Handled(p) ==
    \E k \in 1..Len(image_files) : k < i /\ image_files[k] = p

RowUnchanged(p) ==
    DbPath(p) \in DOMAIN db => db[DbPath(p)] = preDb[DbPath(p)]

\* C1: a file whose content is already WebP when the run starts is left
\* alone by the run: no backup, no temp file, no rewrite, no store update.
C1_TargetEncodingUntouched ==
    \A p \in TreePaths :
        preFs[p].enc = "webp" =>
            /\ ops[p] \subseteq {"skip"}
            /\ fs[p] = preFs[p]
            /\ TempPath(p) \notin DOMAIN fs

C3_SwapFailureRestores ==
    \A p \in TreePaths :
        ("swap_failed" \in ops[p] /\ Handled(p)) =>
            /\ "restore" \in ops[p]
            /\ fs[p] = preFs[p]
            /\ fail[p] >= 1

C5_BackupRetained ==
    \A p \in TreePaths :
        p \in everConverted =>
            /\ BackupPath(p) \in DOMAIN bak
            /\ bak[BackupPath(p)] = orig[p]

\* C6: once the loop is done with a file that was swapped, the file was
\* counted as converted exactly once and never as failed, and it holds the
\* converted bytes, whatever the store update did.
C6_SwappedIsFinal ==
    \A p \in TreePaths :
        ("swap" \in ops[p] /\ Handled(p)) =>
            /\ conv[p] = 1
            /\ fail[p] = 0
            /\ fs[p] = Encode(preFs[p])

\* C7: a file counted as failed has the same row in the table as when the
\* run started, and the run adds no row.
C7_FailedKeepsMetadata ==
    /\ DOMAIN db = DOMAIN preDb
    /\ \A p \in TreePaths : fail[p] >= 1 => RowUnchanged(p)

C7_Witness ==
    \E p \in TreePaths :
        /\ fail[p] >= 1
        /\ "update" \in ops[p]
        /\ DbPath(p) \in DOMAIN db
        /\ db[DbPath(p)] # TARGET_MIME
        /\ db # preDb

\* C8: when the database is wanted and the connection cannot be made, the
\* run never reaches the loop: no file is backed up, converted or replaced
\* and no update is issued.
C8_NoConnectionNoProcessing ==
    (~args.skip_database /\ ~dbUp) =>
        /\ pc \in {"start", "scan", "analyzed", "connect", "done"}
        /\ ops = NoOps
        /\ fs = preFs
        /\ bak = EmptyDir
        /\ db = preDb
        /\ txn = {}
        /\ converted_count = 0
        /\ failed_count = 0

C8_Witness ==
    /\ ~args.skip_database
    /\ ~dbUp
    /\ ~args.dry_run
    /\ image_files # <<>>
    /\ pc = "done"
    /\ run = MaxRuns

\* C9: with --dry-run the run changes nothing: no file, no backup
\* directory, no backup, no temp file, no connection, no row.
C9_DryRunChangesNothing ==
    args.dry_run =>
        /\ fs = preFs
        /\ bakDir = preBakDir
        /\ bak = EmptyDir
        /\ db = preDb
        /\ conn = "none"
        /\ ops = NoOps

\* C10: a step writes a file of the tree only after the backup of that file
\* was taken in this run and while the backup holds the file's pre-run
\* bytes; a file whose backup failed sees no other step, keeps its bytes and
\* is counted as failed once.
C10_BackupPrecedesMutation ==
    [][ /\ \A p \in TreePaths :
             fs'[p] # fs[p] =>
                 /\ "backup" \in ops[p]
                 /\ BackupPath(p) \in DOMAIN bak
                 /\ bak[BackupPath(p)] = preFs[p]
        /\ \A p \in TreePaths :
             "backup_failed" \in ops'[p] =>
                 /\ ops'[p] = {"backup_failed"}
                 /\ fs'[p] = preFs'[p]
                 /\ fail'[p] = 1
                 /\ conv'[p] = 0
      ]_vars

C10_Witness ==
    \E p, q \in TreePaths :
        /\ ops[p] = {"backup_failed"}
        /\ Handled(p)
        /\ "swap" \in ops[q]
        /\ fs[q] # preFs[q]

\* C11: the key of every UPDATE statement is "data/" followed by the file's
\* path relative to the data root the run scans, whether the root is the
\* default or comes from --data-path, and the key can always be derived.
C11_StoreKeyRelativeToDataRoot ==
    /\ (pc = "update" /\ conn = "open") => ~RelativeToRaises(args)
    /\ pc = "commit" => txn = {DbPath(img_path)}

\* C12: a file that was backed up and then restored from that backup, with
\* no swap in between, holds the bytes it had before: the restore of a file
\* that was still intact rewrites it with the same content.
C12_BackupRestoreRoundTrip ==
    \A p \in TreePaths :
        "restore" \in ops[p] =>
            /\ "backup" \in ops[p]
            /\ "swap" \notin ops[p]
            /\ fs[p] = preFs[p]
            /\ fs[p].whole

C12_Witness ==
    \E p \in TreePaths :
        /\ "restore" \in ops[p]
        /\ BackupPath(p) \notin DOMAIN bak
        /\ fs[p] = orig[p]
        /\ pc = "done"

\* the loop reached its end and the summary was printed
Summarised ==
    /\ pc = "done"
    /\ conn # "open"
    /\ i = Len(image_files) + 1

Terminal(p) ==
    \/ "skip" \in ops[p]
    \/ conv[p] >= 1
    \/ fail[p] >= 1

\* C13: whatever steps fail, a run that enters the loop goes on to the
\* summary, and by then every discovered file is skipped, converted or
\* failed.
C13_RunReachesSummary ==
    \A r \in 1..MaxRuns :
        (run = r /\ pc = "loop") ~>
            (/\ run = r
             /\ Summarised
             /\ \A k \in 1..Len(image_files) : Terminal(image_files[k]))

C13_Witness ==
    /\ Summarised
    /\ faults = MaxFaults
    /\ \E p, q \in TreePaths : p # q /\ fail[p] >= 1 /\ fail[q] >= 1
    /\ \E p \in TreePaths : conv[p] = 1

\* C14: when a run has ended, the files under the data root are the files
\* that were there before the first run, every converted file is at its own
\* path, and no temp file is left.
C14_PathSetUnchanged ==
    pc = "done" =>
        /\ DOMAIN fs = DOMAIN orig
        /\ \A p \in everConverted : p \in DOMAIN fs /\ fs[p].of = p
        /\ \A p \in TreePaths : TempPath(p) \notin DOMAIN fs

\* C15: a row that this run changed to the target type belongs to a file
\* that already holds converted bytes, in every state of the run.
C15_SwapBeforeMetadata ==
    \A p \in TreePaths :
        (/\ DbPath(p) \in DOMAIN db
         /\ db[DbPath(p)] = TARGET_MIME
         /\ preDb[DbPath(p)] # TARGET_MIME) =>
            /\ "swap" \in ops[p]
            /\ fs[p] = Encode(preFs[p])

C15_Witness ==
    \E p \in TreePaths :
        /\ DbPath(p) \in DOMAIN db
        /\ db[DbPath(p)] = TARGET_MIME
        /\ preDb[DbPath(p)] # TARGET_MIME
        /\ pc = "count"
        /\ img_path = p

\* C16: with --skip-database no connection is ever opened and no statement
\* is issued, and a file that was swapped is still backed up and counted as
\* converted once and never as failed.
C16_SkipDatabase ==
    args.skip_database =>
        /\ conn = "none"
        /\ txn = {}
        /\ db = preDb
        /\ pc \notin {"update", "commit"}
        /\ \A p \in TreePaths :
             /\ ops[p] \cap {"update", "update_failed"} = {}
             /\ ("swap" \in ops[p] /\ Handled(p)) =>
                    /\ "backup" \in ops[p]
                    /\ conv[p] = 1
                    /\ fail[p] = 0
                    /\ fs[p] = Encode(preFs[p])

C16_Witness ==
    /\ args.skip_database
    /\ dbUp
    /\ pc = "done"
    /\ \E p \in TreePaths : conv[p] = 1
    /\ \E p \in TreePaths : fail[p] = 1

\* C17: outside update_database_mime_type the connection has no pending
\* statement; while a statement waits for its commit it is the one of the
\* current file; and the table gets no new row and changes only in rows
\* whose key an UPDATE of this run named.
C17_OneTransactionPerFile ==
    /\ pc # "commit" => txn = {}
    /\ pc = "commit" => txn = {db_path(args, img_path)}
    /\ DOMAIN db = DOMAIN preDb
    /\ \A k \in DOMAIN db :
         db[k] # preDb[k] =>
             /\ db[k] = TARGET_MIME
             /\ \E p \in TreePaths :
                    "update" \in ops[p] /\ k = db_path(args, p)

C17_Witness ==
    /\ pc = "commit"
    /\ txn = {db_path(args, img_path)}
    /\ db_path(args, img_path) \notin DOMAIN db
    /\ db # preDb

Discovered(p) == \E k \in 1..Len(image_files) : image_files[k] = p

C19_CountedExactlyOnce ==
    (pc \in {"close", "done"} /\ i = Len(image_files) + 1) =>
        /\ \A p \in TreePaths :
             /\ fail[p] <= 1
             /\ Discovered(p) =>
                    conv[p] + fail[p] + (IF "skip" \in ops[p] THEN 1 ELSE 0) = 1
        /\ converted_count + failed_count <= Len(image_files)

====
